---- MODULE Spec2Model ----
(***************************************************************************)
(* Model of the movie data-access layer of greenlight                      *)
(* (internal/data/movies.go): MovieModel.Insert, Get, GetAll, Update and   *)
(* Delete run by concurrent request workers against one movies table.      *)
(* Every store method issues exactly one SQL statement, which the database *)
(* executes atomically; a worker's call is therefore two steps, the        *)
(* submission (arguments read from the caller's struct) and the statement. *)
(***************************************************************************)
EXTENDS Integers, Sequences, FiniteSets, TLC

\* ---------------------------------------------------------------- bounds
MaxId == 2
MaxVersion == 1
MaxPage == 2
MaxChecks == 3

Clients == {"w1", "w2"}

\* ------------------------------------------------------------ input data
Casablanca ==
    [title |-> <<"casablanca">>, year |-> 1942, runtime |-> 102,
     genres |-> <<"drama", "romance", "war">>]

BlackPanther ==
    [title |-> <<"black", "panther">>, year |-> 2018, runtime |-> 134,
     genres |-> <<"action">>]

Payloads == {Casablanca, BlackPanther}

\* What an Update writes over a record.
Edits == {BlackPanther}

IdInputs == {-5, 0} \cup (1..MaxId)

\* The listings asked for: everything by descending title, a title search,
\* a genre filter, and one with a sort field that is not on the safe-list.
Searches ==
    {[title |-> <<>>, genres |-> <<>>, sort |-> <<"-", "title">>],
     [title |-> <<"casablanca">>, genres |-> <<>>, sort |-> <<"id">>],
     [title |-> <<>>, genres |-> <<"war">>, sort |-> <<"id">>],
     [title |-> <<>>, genres |-> <<>>, sort |-> <<"-", "version">>]}

PageSizeInputs == {1, 2}

Range(s) == {s[i] : i \in 1..Len(s)}

\* --------------------------------------------------------------- errors
ErrEditConflict == "edit conflict"
ErrRecordNotFound == "record not found"
ErrNoRows == "sql: no rows in result set"
\* ctx.Err() once the 3-second deadline of a call's context has passed.
DeadlineExceeded == "context deadline exceeded"
NoError == "nil"

\* ------------------------------------------------------ the Movie struct
\* A Go zero-valued Movie; a nil slice is the string "nil".
Nil == "nil"

\* A nil *Movie, where a call returns or holds no movie.
NilMovie == [nil |-> TRUE]

Movie(p) ==
    [id |-> 0, created_at |-> 0, title |-> p.title, year |-> p.year,
     runtime |-> p.runtime, genres |-> p.genres, version |-> 0]

ZeroMetadata ==
    [currentPage |-> 0, pageSize |-> 0, firstPage |-> 0, lastPage |-> 0,
     totalRecords |-> 0]

\* ---------------------------------------------------- the movies table
\* Column default of movies.version.
DefaultVersion == 1

\* First value of the bigserial sequence behind movies.id.
FirstId == 1

\* Variant: the id is computed as one more than the largest stored id.
InsertStmtMaxId(table, m, seq, now) ==
    LET top == IF table = {} THEN 0
               ELSE CHOOSE i \in {r.id : r \in table} :
                        \A r \in table : r.id <= i
        row == [id |-> top + 1, created_at |-> now, title |-> m.title,
                year |-> m.year, runtime |-> m.runtime, genres |-> m.genres,
                version |-> DefaultVersion]
    IN  [table |-> table \cup {row},
         returning |-> <<[id |-> row.id, created_at |-> row.created_at,
                          version |-> row.version]>>]

\* Variant: year and runtime bound to each other's placeholder.
InsertStmtSwapped(table, m, seq, now) ==
    LET row == [id |-> seq, created_at |-> now, title |-> m.title,
                year |-> m.runtime, runtime |-> m.year, genres |-> m.genres,
                version |-> DefaultVersion]
    IN  [table |-> table \cup {row},
         returning |-> <<[id |-> row.id, created_at |-> row.created_at,
                          version |-> row.version]>>]

\* INSERT INTO movies (title, year, runtime, genres) VALUES ($1..$4)
\* RETURNING id, created_at, version
InsertStmt(table, m, seq, now) ==
    LET row == [id |-> seq, created_at |-> now, title |-> m.title,
                year |-> m.year, runtime |-> m.runtime, genres |-> m.genres,
                version |-> DefaultVersion]
    IN  [table |-> table \cup {row},
         returning |-> <<[id |-> row.id, created_at |-> row.created_at,
                          version |-> row.version]>>]

\* SELECT ... FROM movies WHERE id = $1
SelectStmt(table, id) == {r \in table : r.id = id}

\* UPDATE movies SET title = $1, year = $2, runtime = $3, genres = $4,
\* version = version + 1 WHERE id = $5 AND version = $6 RETURNING version
\* Variant: the WHERE clause without the version condition.
UpdateWhereIdOnly(r, m) == r.id = m.id

\* Variant: a struct read from an older version still matches.
UpdateWhereNewer(r, m) == r.id = m.id /\ r.version >= m.version

UpdateWhere(r, m) == r.id = m.id /\ r.version = m.version

\* Variant: the version is advanced by two.
UpdateSetPlusTwo(r, m) ==
    [r EXCEPT !.title = m.title, !.year = m.year, !.runtime = m.runtime,
              !.genres = m.genres, !.version = r.version + 2]

\* Variant: the creation time is written from the struct as well.
UpdateSetCreatedAt(r, m) ==
    [r EXCEPT !.title = m.title, !.year = m.year, !.runtime = m.runtime,
              !.genres = m.genres, !.version = r.version + 1,
              !.created_at = m.created_at]

UpdateSet(r, m) ==
    [r EXCEPT !.title = m.title, !.year = m.year, !.runtime = m.runtime,
              !.genres = m.genres, !.version = r.version + 1]

\* Variant: a row is stored when the table has none with that id.
UpdateStmtUpsert(table, m) ==
    LET hit == {r \in table : UpdateWhere(r, m)}
    IN  IF \A r \in table : r.id # m.id
        THEN [table |-> table \cup {[m EXCEPT !.version = m.version + 1]},
              returning |-> {m.version + 1}]
        ELSE [table |-> (table \ hit) \cup {UpdateSet(r, m) : r \in hit},
              returning |-> {UpdateSet(r, m).version : r \in hit}]

UpdateStmt(table, m) ==
    LET hit == {r \in table : UpdateWhere(r, m)}
    IN  [table |-> (table \ hit) \cup {UpdateSet(r, m) : r \in hit},
         returning |-> {UpdateSet(r, m).version : r \in hit}]

\* DELETE FROM movies WHERE id = $1
DeleteStmt(table, id) ==
    LET hit == {r \in table : r.id = id}
    IN  [table |-> table \ hit, rowsAffected |-> Cardinality(hit)]

\* ------------------------------------------------------------- Filters
\* A sort value is the sequence of its lexical parts: an optional leading
\* "-" followed by the field token ("-year" is <<"-", "year">>).
Filters(page, pageSize, sort) ==
    [Page |-> page, PageSize |-> pageSize, Sort |-> sort]

SortSafelist == {"id", "title", "year", "runtime"}

Panic == "panic"

TrimPrefix(sort) ==
    IF sort # <<>> /\ Head(sort) = "-" THEN Tail(sort) ELSE sort

sortColumn(f) ==
    LET token == TrimPrefix(f.Sort)
    IN  IF Len(token) = 1 /\ token[1] \in SortSafelist
        THEN token[1]
        ELSE Panic

sortDirection(f) ==
    IF f.Sort # <<>> /\ Head(f.Sort) = "-" THEN "DESC" ELSE "ASC"

limit(f) == f.PageSize

offset(f) == (f.Page - 1) * f.PageSize

CeilDiv(a, b) == (a + b - 1) \div b

calculateMetadata(totalRecords, page, pageSize) ==
    IF totalRecords = 0
    THEN ZeroMetadata
    ELSE [currentPage |-> page, pageSize |-> pageSize, firstPage |-> 1,
          lastPage |-> CeilDiv(totalRecords, pageSize),
          totalRecords |-> totalRecords]

\* ------------------------------------------------- the GetAll statement
\* (to_tsvector('simple', title) @@ plainto_tsquery('simple', $1) OR $1 = '')
TitleMatches(r, title) ==
    Range(title) \subseteq Range(r.title) \/ title = <<>>

\* (genres @> $2 OR $2 = '{}')
GenresMatch(r, genres) ==
    Range(genres) \subseteq Range(r.genres) \/ genres = <<>>

GetAllWhere(r, title, genres) ==
    TitleMatches(r, title) /\ GenresMatch(r, genres)

\* Collation order of the words that occur in titles.
WordRank == [black |-> 1, casablanca |-> 2, panther |-> 3]

RECURSIVE TextLess(_, _)
TextLess(s, t) ==
    IF s = <<>> THEN t # <<>>
    ELSE IF t = <<>> THEN FALSE
    ELSE IF Head(s) = Head(t) THEN TextLess(Tail(s), Tail(t))
    ELSE WordRank[Head(s)] < WordRank[Head(t)]

ColumnLess(column, a, b) ==
    IF column = "title" THEN TextLess(a.title, b.title)
    ELSE IF column = "year" THEN a.year < b.year
    ELSE IF column = "runtime" THEN a.runtime < b.runtime
    ELSE a.id < b.id

\* ORDER BY <column> <direction>, id ASC
OrderBefore(column, direction, a, b) ==
    LET lt == ColumnLess(column, a, b)
        gt == ColumnLess(column, b, a)
    IN  IF lt \/ gt
        THEN (IF direction = "DESC" THEN gt ELSE lt)
        ELSE a.id < b.id

OrderBy(rows, column, direction) ==
    [i \in 1..Cardinality(rows) |->
        CHOOSE r \in rows :
            Cardinality({s \in rows : OrderBefore(column, direction, s, r)})
                = i - 1]

Min(a, b) == IF a < b THEN a ELSE b

\* Variant: one row more than the limit.
LimitOffsetPlusOne(sorted, lim, off) ==
    SubSeq(sorted, off + 1, Min(off + lim + 1, Len(sorted)))

\* LIMIT $3 OFFSET $4
LimitOffset(sorted, lim, off) ==
    SubSeq(sorted, off + 1, Min(off + lim, Len(sorted)))

\* SELECT count(*) OVER(), id, ... FROM movies WHERE ... ORDER BY ...
\* LIMIT $3 OFFSET $4: every returned row carries the window count.
GetAllStmt(table, title, genres, column, direction, lim, off) ==
    LET matching == {r \in table : GetAllWhere(r, title, genres)}
        sorted == OrderBy(matching, column, direction)
        page == LimitOffset(sorted, lim, off)
    IN  [i \in 1..Len(page) |->
            [count |-> Cardinality(matching), movie |-> page[i]]]

\* The rows.Next() loop of GetAll: each row overwrites totalRecords and is
\* appended to movies.
RECURSIVE ScanRows(_, _, _)
ScanRows(rows, totalRecords, movies) ==
    IF rows = <<>>
    THEN [totalRecords |-> totalRecords, movies |-> movies]
    ELSE ScanRows(Tail(rows), Head(rows).count,
                  Append(movies, Head(rows).movie))

\* -------------------------------------------------- MovieModel methods
\* The outcome of a call: the error returned, the *Movie the caller holds
\* afterwards (its own struct for Insert and Update, the returned pointer
\* for Get), and the slice and Metadata GetAll returns.
Result(err, movie, list, metadata) ==
    [err |-> err, movie |-> movie, movies |-> list, metadata |-> metadata]

NoResult == Result(NoError, NilMovie, Nil, ZeroMetadata)

\* Row.Scan(&movie.ID, &movie.CreatedAt, &movie.Version)
InsertScan(movie, returning) ==
    [movie EXCEPT !.id = returning[1].id,
                  !.created_at = returning[1].created_at,
                  !.version = returning[1].version]

Insert(table, movie, seq, now) ==
    LET q == InsertStmt(table, movie, seq, now)
    IN  [table |-> q.table,
         result |-> Result(NoError, InsertScan(movie, q.returning), Nil,
                           ZeroMetadata)]

\* Variant: the shortcut taken for negative ids only.
IdGuardNegative(id) == id < 0

\* The id < 1 shortcut of Get and Delete.
IdGuard(id) == id < 1

\* Variant: every error of the query reported as ErrRecordNotFound.
GetErrNotFound(err) == ErrRecordNotFound

\* The switch of Get on the error of QueryRowContext(...).Scan.
GetErr(err) == IF err = ErrNoRows THEN ErrRecordNotFound ELSE err

Get(table, id) ==
    LET rows == SelectStmt(table, id)
        err == IF rows = {} THEN ErrNoRows ELSE NoError
    IN  IF err # NoError
        THEN Result(GetErr(err), NilMovie, Nil, ZeroMetadata)
        ELSE Result(NoError, CHOOSE r \in rows : TRUE, Nil, ZeroMetadata)

\* Variant: every error of the query reported as ErrEditConflict.
UpdateErrConflict(err) == ErrEditConflict

\* The switch of Update on the error of QueryRowContext(...).Scan.
UpdateErr(err) == IF err = ErrNoRows THEN ErrEditConflict ELSE err

\* Variant: no matching row reported as ErrRecordNotFound.
UpdateNotFound(table, movie) ==
    LET q == UpdateStmt(table, movie)
        err == IF q.returning = {} THEN ErrNoRows ELSE NoError
    IN  IF err # NoError
        THEN [table |-> q.table,
              result |-> Result(IF err = ErrNoRows THEN ErrRecordNotFound
                                ELSE err,
                                movie, Nil, ZeroMetadata)]
        ELSE [table |-> q.table,
              result |-> Result(NoError,
                                [movie EXCEPT !.version =
                                    CHOOSE v \in q.returning : TRUE],
                                Nil, ZeroMetadata)]

Update(table, movie) ==
    LET q == UpdateStmt(table, movie)
        err == IF q.returning = {} THEN ErrNoRows ELSE NoError
    IN  IF err # NoError
        THEN [table |-> q.table,
              result |-> Result(UpdateErr(err), movie, Nil, ZeroMetadata)]
        ELSE [table |-> q.table,
              result |-> Result(NoError,
                                [movie EXCEPT !.version =
                                    CHOOSE v \in q.returning : TRUE],
                                Nil, ZeroMetadata)]

\* Variant: the affected-row count is not looked at.
DeleteUnchecked(table, id) ==
    LET q == DeleteStmt(table, id)
    IN  [table |-> q.table,
         result |-> Result(NoError, NilMovie, Nil, ZeroMetadata)]

Delete(table, id) ==
    LET q == DeleteStmt(table, id)
    IN  [table |-> q.table,
         result |-> Result(IF q.rowsAffected = 0 THEN ErrRecordNotFound
                           ELSE NoError,
                           NilMovie, Nil, ZeroMetadata)]

\* Variant: the stripped sort token put into the query text as it is.
GetAllOrderByRaw(filters) ==
    [column |-> IF TrimPrefix(filters.Sort) = <<>> THEN ""
                ELSE Head(TrimPrefix(filters.Sort)),
     direction |-> sortDirection(filters)]

\* fmt.Sprintf("... ORDER BY %s %s, id ASC ...", filters.sortColumn(),
\* filters.sortDirection()): what is interpolated into the query text.
GetAllOrderBy(filters) ==
    [column |-> sortColumn(filters), direction |-> sortDirection(filters)]

\* Variant: movies declared as a nil slice instead of an empty one.
GetAllNilSlice(table, title, genres, filters) ==
    LET q == GetAllOrderBy(filters)
        rows == GetAllStmt(table, title, genres, q.column, q.direction,
                           limit(filters), offset(filters))
        scanned == ScanRows(rows, 0, <<>>)
        metadata == calculateMetadata(scanned.totalRecords, filters.Page,
                                      filters.PageSize)
    IN  IF q.column = Panic
        THEN Result(Panic, NilMovie, Nil, ZeroMetadata)
        ELSE Result(NoError, NilMovie,
                    IF scanned.movies = <<>> THEN Nil ELSE scanned.movies,
                    metadata)

\* sortColumn panics while the query text is being built, before anything
\* is sent; the call then ends without a return value.
GetAll(table, title, genres, filters) ==
    LET q == GetAllOrderBy(filters)
        rows == GetAllStmt(table, title, genres, q.column, q.direction,
                           limit(filters), offset(filters))
        scanned == ScanRows(rows, 0, <<>>)
        metadata == calculateMetadata(scanned.totalRecords, filters.Page,
                                      filters.PageSize)
    IN  IF q.column = Panic
        THEN Result(Panic, NilMovie, Nil, ZeroMetadata)
        ELSE Result(NoError, NilMovie, scanned.movies, metadata)

\* ----------------------------------------------------------- Validator
\* validator.New(): a Validator with an empty Errors map. The map is a
\* function from the keys that carry a message to their messages.
New == <<>>

\* Valid: the Errors map has no entries.
Valid(v) == DOMAIN v = {}

\* Variant: a later message replaces the one recorded under the key.
AddErrorOverwrite(v, key, message) ==
    [k \in DOMAIN v \cup {key} |-> IF k = key THEN message ELSE v[k]]

\* AddError: the message is recorded unless the key already has one.
AddError(v, key, message) ==
    IF key \in DOMAIN v
    THEN v
    ELSE [k \in DOMAIN v \cup {key} |-> IF k = key THEN message ELSE v[k]]

\* Check: a message is added only when the condition is false.
Check(v, ok, key, message) ==
    IF ~ ok THEN AddError(v, key, message) ELSE v

\* len() of a slice; a nil slice has length 0.
SliceLen(values) == IF values = Nil THEN 0 ELSE Len(values)

\* validator.Unique: the values, collected as the keys of a map, are as
\* many as the slice is long.
Unique(values) ==
    IF values = Nil
    THEN TRUE
    ELSE Cardinality(Range(values)) = Len(values)

\* ------------------------------------------------------- ValidateMovie
\* Bytes of each word a title is made of; w489 and w490 stand for words of
\* 489 and 490 bytes.
WordBytes ==
    [black |-> 5, casablanca |-> 10, panther |-> 7, w489 |-> 489,
     w490 |-> 490]

\* len(movie.Title): the bytes of the words and of the spaces between them.
RECURSIVE TitleLen(_)
TitleLen(title) ==
    IF title = <<>>
    THEN 0
    ELSE WordBytes[Head(title)]
             + (IF Tail(title) = <<>> THEN 0 ELSE 1 + TitleLen(Tail(title)))

\* time.Now().Year()
CurrentYear == 2026

CheckCall(ok, key, message) == [ok |-> ok, key |-> key, message |-> message]

TitleChecks(movie) ==
    <<CheckCall(movie.title # <<>>, "title", "must be provided"),
      CheckCall(TitleLen(movie.title) <= 500, "title",
                "must not be more than 500 bytes long")>>

\* Variant: 1888 itself is turned down, as the message has it.
YearChecksAfter1888(movie) ==
    <<CheckCall(movie.year # 0, "year", "must be provided"),
      CheckCall(movie.year > 1888, "year", "must be greater than 1888"),
      CheckCall(movie.year <= CurrentYear, "year",
                "must not be in the future")>>

YearChecks(movie) ==
    <<CheckCall(movie.year # 0, "year", "must be provided"),
      CheckCall(movie.year >= 1888, "year", "must be greater than 1888"),
      CheckCall(movie.year <= CurrentYear, "year",
                "must not be in the future")>>

RuntimeChecks(movie) ==
    <<CheckCall(movie.runtime # 0, "runtime", "must be provided"),
      CheckCall(movie.runtime > 0, "runtime", "must be a positive integer")>>

\* Variant: the genres are never looked at for repeated values.
GenresChecksNoUnique(movie) ==
    <<CheckCall(movie.genres # Nil, "genres", "must be provided"),
      CheckCall(SliceLen(movie.genres) >= 1, "genres",
                "must contain at least 1 genre"),
      CheckCall(SliceLen(movie.genres) <= 5, "genres",
                "must not contain more than 5 genres")>>

GenresChecks(movie) ==
    <<CheckCall(movie.genres # Nil, "genres", "must be provided"),
      CheckCall(SliceLen(movie.genres) >= 1, "genres",
                "must contain at least 1 genre"),
      CheckCall(SliceLen(movie.genres) <= 5, "genres",
                "must not contain more than 5 genres"),
      CheckCall(Unique(movie.genres), "genres",
                "must not contain duplicate values")>>

\* The v.Check calls of ValidateMovie, in the order they are made.
MovieChecks(movie) ==
    TitleChecks(movie) \o YearChecks(movie) \o RuntimeChecks(movie)
        \o GenresChecks(movie)

RECURSIVE RunChecks(_, _)
RunChecks(v, calls) ==
    IF calls = <<>>
    THEN v
    ELSE RunChecks(Check(v, Head(calls).ok, Head(calls).key,
                         Head(calls).message),
                   Tail(calls))

ValidateMovie(v, movie) == RunChecks(v, MovieChecks(movie))

\* What is handed to ValidateMovie: titles of 0, 10, 500 and 501 bytes,
\* years around both ends of the range, runtimes around zero, and genres
\* nil, empty, within and over the limit, with and without repeats.
TitleInputs ==
    {<<>>, <<"casablanca">>, <<"casablanca", "w489">>,
     <<"casablanca", "w490">>}

YearInputs == {0, 1887, 1888, CurrentYear, CurrentYear + 1}

RuntimeInputs == {-1, 0, 102}

GenresInputs ==
    {Nil, <<>>, <<"war">>, <<"war", "war">>,
     <<"drama", "war", "drama", "war">>,
     <<"war", "war", "war", "war", "war">>,
     <<"action", "drama", "romance", "thriller", "war">>,
     <<"action", "comedy", "drama", "romance", "thriller", "war">>,
     <<"action", "war", "drama", "romance", "thriller", "war">>}

\* What a Check call is given.
KeyInputs == {"title", "genres"}

MessageInputs == {"must be provided", "must not contain duplicate values"}

\* What a method returns when the call it makes on the database returns
\* err instead of an answer: the caller's struct is left as it was, and
\* GetAll returns nil and an empty Metadata.
Failed(call, err) ==
    CASE call.name = "Insert" -> Result(err, call.movie, Nil, ZeroMetadata)
      [] call.name = "Get" ->
             Result(GetErr(err), NilMovie, Nil, ZeroMetadata)
      [] call.name = "Update" ->
             Result(UpdateErr(err), call.movie, Nil, ZeroMetadata)
      [] call.name = "Delete" -> Result(err, NilMovie, Nil, ZeroMetadata)
      [] call.name = "GetAll" -> Result(err, NilMovie, Nil, ZeroMetadata)

\* The table after the server has run the statement of a writing call.
Applied(table, call, seq, now) ==
    CASE call.name = "Insert" -> InsertStmt(table, call.movie, seq, now).table
      [] call.name = "Update" -> UpdateStmt(table, call.movie).table
      [] call.name = "Delete" -> DeleteStmt(table, call.id).table

\* ---------------------------------------------------------------- state
VARIABLES
    movies,     \* the rows of the movies table
    nextId,     \* next value of the bigserial sequence behind movies.id
    now,        \* the database clock, read by created_at's default
    pc,         \* per worker: "idle", "exec" (statement not yet run), "done"
    op,         \* per worker: the call in progress and its arguments
    res,        \* per worker: what the call returned
    stmts,      \* per worker: statements the current call has issued
    base,       \* per worker: whether, at submission, its Update's struct
                \* carried the version stored for its id
    assigned,   \* every id an Insert has returned
    fresh,      \* the structs Insert filled in, for the ids that no Update
                \* or Delete has matched since
    unmodified, \* workers holding a GetAll result read from the table as it
                \* still is
    orderBy,    \* per worker: the ORDER BY column of the statement its
                \* GetAll sent ("none" when it sent none)
    updates,    \* per id: how many Updates of the record stored under it
                \* have succeeded (none once it is removed)
    deleted,    \* the ids a Delete has removed
    errors,     \* a Validator: its Errors map
    checks,     \* the Check calls made on it, in order
    input       \* the Movie handed to ValidateMovie, once it has been

\* The validator is not touched by the store, nor the store by it.
validation == <<errors, checks, input>>

store ==
    <<movies, nextId, now, pc, op, res, stmts, base, assigned, fresh,
      unmodified, orderBy, updates, deleted>>

vars ==
    <<movies, nextId, now, pc, op, res, stmts, base, assigned, fresh,
      unmodified, orderBy, updates, deleted, errors, checks, input>>

NoOp == [name |-> "none"]

StoredVersion(table, id) ==
    IF \E r \in table : r.id = id
    THEN (CHOOSE r \in table : r.id = id).version
    ELSE 0

Init ==
    /\ movies = {}
    /\ nextId = FirstId
    /\ now = 100
    /\ pc = [c \in Clients |-> "idle"]
    /\ op = [c \in Clients |-> NoOp]
    /\ res = [c \in Clients |-> NoResult]
    /\ stmts = [c \in Clients |-> 0]
    /\ base = [c \in Clients |-> FALSE]
    /\ assigned = {}
    /\ fresh = {}
    /\ unmodified = {}
    /\ orderBy = [c \in Clients |-> "none"]
    /\ updates = [i \in 1..MaxId |-> 0]
    /\ deleted = {}
    /\ errors = New
    /\ checks = <<>>
    /\ input = <<>>

Submit(c, call) ==
    /\ pc[c] = "idle"
    /\ pc' = [pc EXCEPT ![c] = "exec"]
    /\ op' = [op EXCEPT ![c] = call]
    /\ UNCHANGED <<movies, nextId, now, res, stmts, assigned, fresh,
                   unmodified, orderBy, updates, deleted, validation>>

\* A statement that changed the table outdates every listing read before.
Written ==
    unmodified' = IF movies' = movies THEN unmodified ELSE {}

Finish(c, result) ==
    /\ pc' = [pc EXCEPT ![c] = "done"]
    /\ res' = [res EXCEPT ![c] = result]

\* Workers holding the result of a read they have not yet handed back.
\* Return changes nothing but the worker's own variables, so it commutes
\* with every step of another worker; a reader is made to return before the
\* next writing statement runs, which leaves out only states that differ by
\* the order of two independent steps.
Readers ==
    {d \in Clients : pc[d] = "done" /\ op[d].name \in {"Get", "GetAll"}}

\* ---------------------------------------------------------------- Insert
\* Workers whose INSERT has been submitted and not yet run.
PendingInserts == {d \in Clients : pc[d] = "exec" /\ op[d].name = "Insert"}

CallInsert(c) ==
    \E p \in Payloads :
        /\ nextId + Cardinality(PendingInserts) <= MaxId
        /\ Submit(c, [name |-> "Insert", movie |-> Movie(p)])
        /\ UNCHANGED base

ExecInsert(c) ==
    /\ pc[c] = "exec" /\ op[c].name = "Insert"
    /\ Readers = {}
    /\ LET r == Insert(movies, op[c].movie, nextId, now)
       IN  /\ movies' = r.table
           /\ Finish(c, r.result)
           /\ assigned' = assigned \cup {r.result.movie.id}
           /\ fresh' = fresh \cup {r.result.movie}
    /\ Written
    /\ nextId' = nextId + 1
    /\ now' = now + 1
    /\ stmts' = [stmts EXCEPT ![c] = stmts[c] + 1]
    /\ UNCHANGED <<op, base, orderBy, updates, deleted, validation>>

\* ------------------------------------------------------------------- Get
CallGet(c) ==
    \E id \in IdInputs :
        IF IdGuard(id)
        THEN /\ pc[c] = "idle"
             /\ op' = [op EXCEPT ![c] = [name |-> "Get", id |-> id]]
             /\ Finish(c, Result(ErrRecordNotFound, NilMovie, Nil,
                                 ZeroMetadata))
             /\ UNCHANGED <<movies, nextId, now, stmts, base, assigned,
                            fresh, unmodified, orderBy, updates, deleted,
                            validation>>
        ELSE /\ Submit(c, [name |-> "Get", id |-> id])
             /\ UNCHANGED base

ExecGet(c) ==
    /\ pc[c] = "exec" /\ op[c].name = "Get"
    /\ Finish(c, Get(movies, op[c].id))
    /\ stmts' = [stmts EXCEPT ![c] = stmts[c] + 1]
    /\ UNCHANGED <<movies, nextId, now, op, base, assigned, fresh,
                   unmodified, orderBy, updates, deleted, validation>>

\* ---------------------------------------------------------------- Update
CallUpdate(c) ==
    \E id \in 1..MaxId, v \in 1..MaxVersion, p \in Edits :
        /\ Submit(c, [name |-> "Update",
                      movie |-> [Movie(p) EXCEPT !.id = id, !.version = v]])
        /\ base' = [base EXCEPT ![c] = StoredVersion(movies, id) = v]

ExecUpdate(c) ==
    /\ pc[c] = "exec" /\ op[c].name = "Update"
    /\ Readers = {}
    /\ LET r == Update(movies, op[c].movie)
       IN  /\ movies' = r.table
           /\ Finish(c, r.result)
           /\ fresh' = IF r.result.err = NoError
                       THEN {m \in fresh : m.id # op[c].movie.id}
                       ELSE fresh
           /\ updates' = IF r.result.err = NoError
                         THEN [updates EXCEPT ![op[c].movie.id] = @ + 1]
                         ELSE updates
    /\ Written
    /\ stmts' = [stmts EXCEPT ![c] = stmts[c] + 1]
    /\ UNCHANGED <<nextId, now, op, base, assigned, orderBy, deleted,
                   validation>>

\* ---------------------------------------------------------------- Delete
CallDelete(c) ==
    \E id \in IdInputs :
        IF IdGuard(id)
        THEN /\ pc[c] = "idle"
             /\ op' = [op EXCEPT ![c] = [name |-> "Delete", id |-> id]]
             /\ Finish(c, Result(ErrRecordNotFound, NilMovie, Nil,
                                 ZeroMetadata))
             /\ UNCHANGED <<movies, nextId, now, stmts, base, assigned,
                            fresh, unmodified, orderBy, updates, deleted,
                            validation>>
        ELSE /\ Submit(c, [name |-> "Delete", id |-> id])
             /\ UNCHANGED base

ExecDelete(c) ==
    /\ pc[c] = "exec" /\ op[c].name = "Delete"
    /\ Readers = {}
    /\ LET r == Delete(movies, op[c].id)
       IN  /\ movies' = r.table
           /\ Finish(c, r.result)
           /\ fresh' = IF r.result.err = NoError
                       THEN {m \in fresh : m.id # op[c].id}
                       ELSE fresh
           /\ deleted' = IF r.result.err = NoError
                         THEN deleted \cup {op[c].id}
                         ELSE deleted
           /\ updates' = IF r.result.err = NoError
                         THEN [updates EXCEPT ![op[c].id] = 0]
                         ELSE updates
    /\ Written
    /\ stmts' = [stmts EXCEPT ![c] = stmts[c] + 1]
    /\ UNCHANGED <<nextId, now, op, base, assigned, orderBy, validation>>

\* ---------------------------------------------------------------- GetAll
\* The query text is built from the arguments and the statement is sent in
\* the same call; nothing another worker does falls between the two.
CallGetAll(c) ==
    \E s \in Searches, page \in 1..MaxPage, pageSize \in PageSizeInputs :
        /\ pc[c] = "idle"
        /\ op' = [op EXCEPT ![c] =
                    [name |-> "GetAll", title |-> s.title,
                     genres |-> s.genres,
                     filters |-> Filters(page, pageSize, s.sort)]]
        /\ LET r == GetAll(movies, s.title, s.genres,
                           Filters(page, pageSize, s.sort))
               sent == r.err # Panic
           IN  /\ Finish(c, r)
               /\ stmts' = [stmts EXCEPT ![c] =
                               IF sent THEN stmts[c] + 1 ELSE stmts[c]]
               /\ orderBy' = [orderBy EXCEPT ![c] =
                                 IF sent
                                 THEN GetAllOrderBy(
                                          Filters(page, pageSize,
                                                  s.sort)).column
                                 ELSE "none"]
               /\ unmodified' = IF sent THEN unmodified \cup {c}
                                ELSE unmodified
        /\ UNCHANGED <<movies, nextId, now, base, assigned, fresh, updates,
                       deleted, validation>>

\* ---------------------------------------------------------------- return
\* The worker's request ends; it is free to serve the next one.
Return(c) ==
    /\ pc[c] = "done"
    /\ pc' = [pc EXCEPT ![c] = "idle"]
    /\ op' = [op EXCEPT ![c] = NoOp]
    /\ res' = [res EXCEPT ![c] = NoResult]
    /\ stmts' = [stmts EXCEPT ![c] = 0]
    /\ base' = [base EXCEPT ![c] = FALSE]
    /\ unmodified' = unmodified \ {c}
    /\ orderBy' = [orderBy EXCEPT ![c] = "none"]
    /\ UNCHANGED <<movies, nextId, now, assigned, fresh, updates, deleted,
                   validation>>

Next ==
    \E c \in Clients :
        \/ CallInsert(c)
        \/ ExecInsert(c)
        \/ CallGet(c)
        \/ ExecGet(c)
        \/ CallUpdate(c)
        \/ ExecUpdate(c)
        \/ CallDelete(c)
        \/ ExecDelete(c)
        \/ CallGetAll(c)
        \/ Return(c)

Spec == Init /\ [][Next]_vars

\* ------------------------------------------------------------- deadline
\* The context of every call carries a 3-second deadline. When it passes
\* before the statement has taken effect, the pending call on the database
\* returns the context's error and the table is as it was.
Expire(c) ==
    /\ pc[c] = "exec"
    /\ Finish(c, Failed(op[c], DeadlineExceeded))
    /\ stmts' = [stmts EXCEPT ![c] = stmts[c] + 1]
    /\ UNCHANGED <<movies, nextId, now, op, base, assigned, fresh,
                   unmodified, orderBy, updates, deleted, validation>>

\* The deadline passes after the server has run the statement of a writing
\* call and before its answer has been read: the call returns the context's
\* error, the statement's effect stays.
LoseReply(c) ==
    /\ pc[c] = "exec" /\ op[c].name \in {"Insert", "Update", "Delete"}
    /\ Readers = {}
    /\ movies' = Applied(movies, op[c], nextId, now)
    /\ Finish(c, Failed(op[c], DeadlineExceeded))
    /\ IF op[c].name = "Insert"
       THEN /\ nextId' = nextId + 1
            /\ now' = now + 1
            /\ assigned' = assigned \cup {nextId}
            /\ UNCHANGED <<fresh, updates, deleted>>
       ELSE LET id == IF op[c].name = "Update" THEN op[c].movie.id
                      ELSE op[c].id
                hit == movies' # movies
            IN  /\ fresh' = IF hit THEN {m \in fresh : m.id # id}
                            ELSE fresh
                /\ updates' =
                       IF ~ hit THEN updates
                       ELSE IF op[c].name = "Update"
                       THEN [updates EXCEPT ![id] = @ + 1]
                       ELSE [updates EXCEPT ![id] = 0]
                /\ deleted' = IF hit /\ op[c].name = "Delete"
                              THEN deleted \cup {id}
                              ELSE deleted
                /\ UNCHANGED <<nextId, now, assigned>>
    /\ Written
    /\ stmts' = [stmts EXCEPT ![c] = stmts[c] + 1]
    /\ UNCHANGED <<op, base, orderBy, validation>>

\* The writing calls with deadlines: every statement may run as in Next,
\* or its call may end on the deadline, with or without the statement's
\* effect. Get and GetAll, which store nothing, are left to Next.
NextFault ==
    \E c \in Clients :
        \/ CallInsert(c)
        \/ ExecInsert(c)
        \/ CallUpdate(c)
        \/ ExecUpdate(c)
        \/ CallDelete(c)
        \/ ExecDelete(c)
        \/ Return(c)
        \/ Expire(c)
        \/ LoseReply(c)

SpecFault == Init /\ [][NextFault]_vars

\* GetAll has sent its statement and waits for the rows.
StallGetAll(c) ==
    \E s \in Searches, page \in 1..MaxPage, pageSize \in PageSizeInputs :
        LET filters == Filters(page, pageSize, s.sort)
        IN  /\ pc[c] = "idle"
            /\ GetAllOrderBy(filters).column # Panic
            /\ pc' = [pc EXCEPT ![c] = "exec"]
            /\ op' = [op EXCEPT ![c] =
                        [name |-> "GetAll", title |-> s.title,
                         genres |-> s.genres, filters |-> filters]]
            /\ orderBy' = [orderBy EXCEPT ![c] =
                             GetAllOrderBy(filters).column]
            /\ UNCHANGED <<movies, nextId, now, res, stmts, base, assigned,
                           fresh, unmodified, updates, deleted, validation>>

\* A database that never answers: calls are made and none of their
\* statements ever runs.
NextStall ==
    \E c \in Clients :
        \/ CallInsert(c)
        \/ CallGet(c)
        \/ CallUpdate(c)
        \/ CallDelete(c)
        \/ StallGetAll(c)
        \/ Expire(c)
        \/ Return(c)

\* The timer behind context.WithTimeout fires whatever the database does:
\* a call that waits does not wait forever. (Expire always changes pc.)
SpecStall ==
    /\ Init
    /\ [][NextStall]_vars
    /\ \A c \in Clients : WF_pc(Expire(c))

\* ------------------------------------------------------------ validation
\* One v.Check call on the validator.
CallCheck ==
    \E ok \in BOOLEAN, key \in KeyInputs, message \in MessageInputs :
        /\ Len(checks) < MaxChecks
        /\ errors' = Check(errors, ok, key, message)
        /\ checks' = Append(checks, CheckCall(ok, key, message))
        /\ UNCHANGED <<input, store>>

\* createMovieHandler: a new Validator is handed to ValidateMovie together
\* with the movie built from the request.
CallValidateMovie ==
    \E title \in TitleInputs, year \in YearInputs,
       runtime \in RuntimeInputs, genres \in GenresInputs :
        LET movie == Movie([title |-> title, year |-> year,
                            runtime |-> runtime, genres |-> genres])
        IN  /\ input = <<>> /\ checks = <<>>
            /\ input' = <<movie>>
            /\ errors' = ValidateMovie(New, movie)
            /\ checks' = MovieChecks(movie)
            /\ UNCHANGED store

NextValidator ==
    \/ CallCheck
    \/ CallValidateMovie

SpecValidator == Init /\ [][NextValidator]_vars

\* ================================================================ claims
\* The step in which worker c's statement runs and its call returns.
Ran(c, name) ==
    /\ pc[c] = "exec"
    /\ op[c].name = name
    /\ pc'[c] = "done"

Returned(c, name) == pc[c] = "done" /\ op[c].name = name

\* Two Update calls of different workers on record id, both carrying
\* version n and both submitted while n was the stored version, have both
\* returned.
BothUpdated(c, d, id, n) ==
    /\ c # d
    /\ Returned(c, "Update") /\ Returned(d, "Update")
    /\ op[c].movie.id = id /\ op[d].movie.id = id
    /\ op[c].movie.version = n /\ op[d].movie.version = n
    /\ base[c] /\ base[d]

\* C1: of two Update calls submitted against the same existing record with
\* the same starting version n, exactly one succeeds, the other returns
\* ErrEditConflict, and the stored version is n + 1.
C1_OneUpdateWins ==
    \A c, d \in Clients, id \in 1..MaxId, n \in 1..MaxVersion :
        BothUpdated(c, d, id, n) =>
            /\ {res[c].err, res[d].err} = {NoError, ErrEditConflict}
            /\ StoredVersion(movies, id) = n + 1
            /\ \A w \in {c, d} :
                   res[w].movie.version =
                       IF res[w].err = NoError THEN n + 1 ELSE n

C1_Witness ==
    \E c, d \in Clients, id \in 1..MaxId, n \in 1..MaxVersion :
        BothUpdated(c, d, id, n)

\* C2: an Update whose version differs from the stored version of its id,
\* or whose id names no stored record, returns ErrEditConflict (never
\* ErrRecordNotFound) and leaves the table and the struct's version as they
\* were.
C2_StaleUpdateConflicts ==
    [][\A c \in Clients :
          (/\ Ran(c, "Update")
           /\ StoredVersion(movies, op[c].movie.id) # op[c].movie.version)
          => /\ res'[c].err = ErrEditConflict
             /\ res'[c].err # ErrRecordNotFound
             /\ movies' = movies
             /\ res'[c].movie.version = op[c].movie.version]_vars

\* One worker lost to a newer stored version, the other named an id that
\* is not stored.
C2_Witness ==
    \E c, d \in Clients :
        /\ Returned(c, "Update") /\ res[c].err = ErrEditConflict
        /\ StoredVersion(movies, op[c].movie.id) > op[c].movie.version
        /\ Returned(d, "Update") /\ res[d].err = ErrEditConflict
        /\ StoredVersion(movies, op[d].movie.id) = 0

\* C3: a record's version is 1 right after Insert, never decreases, and
\* changes only by a successful Update, which adds exactly 1.
C3_VersionCounts ==
    [][/\ \A r \in movies' :
             (~ \E o \in movies : o.id = r.id) =>
                 /\ r.version = 1
                 /\ \E c \in Clients : Ran(c, "Insert")
       /\ \A o \in movies, r \in movies' :
             o.id = r.id =>
                 /\ r.version >= o.version
                 /\ r.version # o.version =>
                        /\ r.version = o.version + 1
                        /\ \E c \in Clients :
                               /\ Ran(c, "Update")
                               /\ op[c].movie.id = r.id
                               /\ res'[c].err = NoError]_vars

C3_Witness ==
    \E c \in Clients, r \in movies :
        /\ Returned(c, "Update") /\ res[c].err = NoError
        /\ r.id = op[c].movie.id
        /\ r.version = 2

\* C4: Get(id) and Delete(id) with id < 1 return ErrRecordNotFound without
\* issuing a statement; the table is unchanged.
C4_IdGuardShortcut ==
    [][\A c \in Clients :
          (/\ pc[c] = "idle" /\ pc'[c] # "idle"
           /\ op'[c].name \in {"Get", "Delete"}
           /\ op'[c].id < 1)
          => /\ pc'[c] = "done"
             /\ res'[c].err = ErrRecordNotFound
             /\ stmts'[c] = 0
             /\ movies' = movies
             /\ nextId' = nextId]_vars

C4_Witness ==
    \E c, d \in Clients :
        /\ Returned(c, "Get") /\ op[c].id = 0
        /\ res[c].err = ErrRecordNotFound /\ stmts[c] = 0
        /\ Returned(d, "Delete") /\ op[d].id < 0
        /\ res[d].err = ErrRecordNotFound /\ stmts[d] = 0
        /\ movies # {}

\* C5: Delete(id) with id >= 1 succeeds iff a record with that id is stored
\* when the statement runs, and then removes exactly that record; otherwise
\* it returns ErrRecordNotFound and the table is unchanged.
C5_DeleteExact ==
    [][\A c \in Clients :
          (Ran(c, "Delete") /\ op[c].id >= 1) =>
              LET stored == {r \in movies : r.id = op[c].id}
              IN  /\ res'[c].err = NoError <=> stored # {}
                  /\ stored # {} =>
                         /\ Cardinality(stored) = 1
                         /\ movies' = movies \ stored
                  /\ stored = {} =>
                         /\ res'[c].err = ErrRecordNotFound
                         /\ movies' = movies]_vars

\* One Delete removed its record while the other found nothing to remove.
C5_Witness ==
    \E c, d \in Clients :
        /\ Returned(c, "Delete") /\ res[c].err = NoError
        /\ ~ \E r \in movies : r.id = op[c].id
        /\ Returned(d, "Delete") /\ res[d].err = ErrRecordNotFound
        /\ op[d].id >= 1
        /\ movies # {}

\* C6: Get of an id that Insert returned, with no Update or Delete of that
\* id in between, returns the struct as Insert left it: same title, year,
\* runtime, genres, id and createdAt, and version 1.
C6_InsertGetRoundTrip ==
    [][\A c \in Clients :
          Ran(c, "Get") =>
              \A m \in fresh :
                  m.id = op[c].id =>
                      /\ res'[c].err = NoError
                      /\ res'[c].movie = m
                      /\ res'[c].movie.version = 1]_vars

C6_Witness ==
    \E c \in Clients :
        /\ Returned(c, "Get") /\ res[c].err = NoError
        /\ res[c].movie \in fresh
        /\ res[c].movie.genres = <<"drama", "romance", "war">>

\* C7: every Insert returns an id >= 1 that no earlier Insert returned,
\* deleted records included, and no stored record has an id < 1.
C7_IdsNeverReused ==
    [][/\ \A c \in Clients :
             (Ran(c, "Insert") /\ res'[c].err = NoError) =>
                 /\ res'[c].movie.id >= 1
                 /\ res'[c].movie.id \notin assigned
       /\ \A r \in movies' : r.id >= 1]_vars

\* An Insert returned after the record of an earlier id had been deleted.
C7_Witness ==
    \E c \in Clients :
        /\ Returned(c, "Insert") /\ res[c].err = NoError
        /\ \E i \in assigned :
              /\ i < res[c].movie.id
              /\ ~ \E r \in movies : r.id = i

\* The stored records a GetAll with worker c's arguments selects.
Matching(c) == {r \in movies : GetAllWhere(r, op[c].title, op[c].genres)}

\* Worker d asked for the page after worker c's, all else equal.
NextPage(c, d) ==
    /\ c # d
    /\ op[c].title = op[d].title
    /\ op[c].genres = op[d].genres
    /\ op[c].filters.Sort = op[d].filters.Sort
    /\ op[c].filters.PageSize = op[d].filters.PageSize
    /\ op[d].filters.Page = op[c].filters.Page + 1

\* C8: over an unmodified table and with the same search text, genre
\* filter, sort and page size, the results for page k and page k + 1 are
\* disjoint, their concatenation is the corresponding slice of the full
\* sorted result, and totalRecords is the same in both.
C8_PaginationDeterminism ==
    \A c, d \in unmodified :
        NextPage(c, d) =>
            LET f == op[c].filters
                full == OrderBy(Matching(c), sortColumn(f), sortDirection(f))
                first == (f.Page - 1) * f.PageSize + 1
                last == Min((f.Page + 1) * f.PageSize, Len(full))
            IN  /\ Range(res[c].movies) \cap Range(res[d].movies) = {}
                /\ res[c].movies \o res[d].movies = SubSeq(full, first, last)
                /\ res[c].metadata.totalRecords
                       = res[d].metadata.totalRecords

\* C9: a GetAll that returns without error reports as totalRecords the
\* number of stored records matching the search text and genre filter,
\* whatever the page and page size.
C9_TotalRecordsCountsMatches ==
    \A c \in unmodified :
        res[c].err = NoError =>
            res[c].metadata.totalRecords = Cardinality(Matching(c))

\* C10: a GetAll whose search text and genre filter match no stored record
\* returns an empty, non-nil slice, an all-zero Metadata and no error.
C10_EmptyResult ==
    \A c \in unmodified :
        Matching(c) = {} =>
            /\ res[c].err = NoError
            /\ res[c].movies # Nil
            /\ res[c].movies = <<>>
            /\ res[c].metadata = ZeroMetadata

\* The table holds records, none of which the search term selects.
C10_Witness ==
    \E c \in unmodified :
        /\ movies # {}
        /\ op[c].title # <<>>
        /\ Matching(c) = {}
        /\ res[c].movies = <<>>

\* Worker c's GetAll carries a sort field whose token, once a leading "-"
\* is stripped, is not one of the safe-listed columns.
UnsafeSort(c) ==
    /\ Returned(c, "GetAll")
    /\ \/ Len(TrimPrefix(op[c].filters.Sort)) # 1
       \/ Head(TrimPrefix(op[c].filters.Sort))
              \notin {"id", "title", "year", "runtime"}

\* C13: the ORDER BY column of every statement GetAll sends is one of the
\* safe-listed storage columns id, title, year, runtime; a GetAll whose
\* sort field is not on the safe-list fails fatally in sortColumn and sends
\* no statement at all.
C13_OrderBySafelisted ==
    \A c \in Clients :
        /\ orderBy[c] \in {"id", "title", "year", "runtime", "none"}
        /\ UnsafeSort(c) =>
               /\ res[c].err = Panic
               /\ stmts[c] = 0
               /\ orderBy[c] = "none"
               /\ c \notin unmodified

\* One worker's GetAll stopped on an unsafe sort field while another's went
\* through ordered by a safe-listed column.
C13_Witness ==
    \E c, d \in Clients :
        /\ UnsafeSort(c)
        /\ res[c].err = Panic
        /\ Returned(d, "GetAll")
        /\ orderBy[d] = "title"
        /\ stmts[d] = 1

\* C17: no update is lost. An Update succeeds only if, when its statement
\* runs, the stored version of its id is the version its struct carries (so
\* no other successful Update came between the caller's read and its
\* write); it then stores that version plus one. Every stored record's
\* version is 1 plus the number of successful Updates of that record.
C17_NoLostUpdate ==
    [][/\ \A c \in Clients :
             (Ran(c, "Update") /\ res'[c].err = NoError) =>
                 /\ StoredVersion(movies, op[c].movie.id)
                        = op[c].movie.version
                 /\ StoredVersion(movies', op[c].movie.id)
                        = op[c].movie.version + 1
                 /\ updates'[op[c].movie.id]
                        = updates[op[c].movie.id] + 1
       /\ \A c \in Clients :
             (Ran(c, "Update") /\ res'[c].err # NoError) =>
                 /\ movies' = movies
                 /\ updates' = updates
       /\ \A r \in movies' : r.version = 1 + updates'[r.id]]_vars

\* Two workers read the same version of a record; one Update went through,
\* the other, running second, was turned down, and the record counts one
\* Update.
C17_Witness ==
    \E c, d \in Clients :
        /\ Returned(c, "Update") /\ res[c].err = NoError
        /\ Returned(d, "Update") /\ res[d].err = ErrEditConflict
        /\ base[c] /\ base[d]
        /\ op[c].movie.id = op[d].movie.id
        /\ updates[op[c].movie.id] = 1
        /\ StoredVersion(movies, op[c].movie.id) = 2

\* The step in which worker c's GetAll runs and returns.
Listed(c) ==
    pc[c] = "idle" /\ pc'[c] = "done" /\ op'[c].name = "GetAll"

\* C18: a successful Update changes nothing but the title, year, runtime,
\* genres and version of the one record carrying its id: that record keeps
\* its id and creation time, every other record stays as it is, and none is
\* added or removed. Get and GetAll change no stored record.
C18_UpdateFrame ==
    [][/\ \A c \in Clients :
             (Ran(c, "Update") /\ res'[c].err = NoError) =>
                 LET m == op[c].movie
                 IN  /\ {r \in movies' : r.id # m.id}
                            = {r \in movies : r.id # m.id}
                     /\ \E o \in movies, r \in movies' :
                            /\ o.id = m.id /\ r.id = m.id
                            /\ {x \in movies : x.id = m.id} = {o}
                            /\ {x \in movies' : x.id = m.id} = {r}
                            /\ r.created_at = o.created_at
                            /\ r.title = m.title /\ r.year = m.year
                            /\ r.runtime = m.runtime /\ r.genres = m.genres
                            /\ r.version = o.version + 1
       /\ \A c \in Clients :
             (Ran(c, "Get") \/ Listed(c)) =>
                 /\ movies' = movies
                 /\ nextId' = nextId]_vars

\* An Update rewrote one of two stored records: it shows the new title
\* under its old creation time, next to a record still at version 1.
C18_Witness ==
    \E c \in Clients, r, o \in movies :
        /\ Returned(c, "Update") /\ res[c].err = NoError
        /\ r.id = op[c].movie.id /\ o.id # r.id
        /\ r.title = op[c].movie.title
        /\ r.created_at # op[c].movie.created_at
        /\ r.version = 2 /\ o.version = 1

\* C19: with Inserts, Updates and Deletes of other workers under way, the
\* rows and the totalRecords one GetAll returns come from the table as it
\* is when its statement runs: every returned row is a stored record that
\* matches the filter, no row comes twice, a non-empty answer carries the
\* number of matching records, and the rows number at most totalRecords
\* and at most the page size.
C19_ListingOfOneState ==
    [][\A c \in Clients :
          (Listed(c) /\ res'[c].err = NoError) =>
              LET rows == res'[c].movies
                  total == res'[c].metadata.totalRecords
                  matching ==
                      {r \in movies :
                           GetAllWhere(r, op'[c].title, op'[c].genres)}
              IN  /\ Range(rows) \subseteq matching
                  /\ Cardinality(Range(rows)) = Len(rows)
                  /\ rows # <<>> => total = Cardinality(matching)
                  /\ Len(rows) <= total
                  /\ Len(rows) <= op'[c].filters.PageSize]_vars

\* A listing returned a full page out of more matching records while
\* another worker's write to one of the listed records was waiting to run.
C19_Witness ==
    \E c, d \in Clients :
        /\ Returned(c, "GetAll") /\ res[c].err = NoError
        /\ Len(res[c].movies) = op[c].filters.PageSize
        /\ res[c].metadata.totalRecords > Len(res[c].movies)
        /\ pc[d] = "exec"
        /\ \/ op[d].name = "Delete" /\ op[d].id = res[c].movies[1].id
           \/ op[d].name = "Update"
                  /\ op[d].movie.id = res[c].movies[1].id

\* Worker d's Delete of the id worker c's Delete names is waiting to run.
DeleteWaiting(c, d) ==
    /\ c # d
    /\ pc[d] = "exec" /\ op[d].name = "Delete"
    /\ op[d].id = op[c].id

\* C20: a deleted record stays deleted. Once a Delete of an id has
\* succeeded no record with that id is stored again, whatever Update or
\* Delete calls run before or after it; from then on Get and Delete of the
\* id return ErrRecordNotFound and Update of it returns ErrEditConflict
\* without storing anything (no Update ever stores a record under an id
\* that was not stored when it ran); of two concurrent Deletes of one
\* stored id the one that runs first succeeds and the other, running on a
\* deleted id, returns ErrRecordNotFound, so exactly one succeeds.
C20_DeleteIsPermanent ==
    [][/\ \A i \in deleted' : StoredVersion(movies', i) = 0
       /\ deleted \subseteq deleted'
       /\ \A c \in Clients :
             /\ (Ran(c, "Get") /\ op[c].id \in deleted) =>
                    res'[c].err = ErrRecordNotFound
             /\ (Ran(c, "Delete") /\ op[c].id \in deleted) =>
                    res'[c].err = ErrRecordNotFound /\ movies' = movies
             /\ (Ran(c, "Update") /\ op[c].movie.id \in deleted) =>
                    res'[c].err = ErrEditConflict /\ movies' = movies
             /\ Ran(c, "Update") =>
                    {r.id : r \in movies'} = {r.id : r \in movies}
       /\ \A c, d \in Clients :
             (/\ Ran(c, "Delete") /\ DeleteWaiting(c, d)
              /\ StoredVersion(movies, op[c].id) # 0) =>
                 /\ res'[c].err = NoError
                 /\ op[d].id \in deleted'
       /\ \A c, d \in Clients :
             (/\ c # d
              /\ pc'[c] = "done" /\ op'[c].name = "Delete"
              /\ pc'[d] = "done" /\ op'[d].name = "Delete"
              /\ op'[c].id = op'[d].id) =>
                 ~ (res'[c].err = NoError /\ res'[d].err = NoError)]_vars

\* An Update submitted against the stored version of a record ran after
\* another worker's Delete of that record and was turned down; the id is
\* not stored.
C20_Witness ==
    \E c, d \in Clients :
        /\ Returned(c, "Delete") /\ res[c].err = NoError
        /\ Returned(d, "Update") /\ res[d].err = ErrEditConflict
        /\ base[d]
        /\ op[d].movie.id = op[c].id
        /\ op[c].id \in deleted
        /\ StoredVersion(movies, op[c].id) = 0

\* The positions in the log of the Check calls on key whose condition was
\* false.
Failing(key) ==
    {i \in 1..Len(checks) : ~ checks[i].ok /\ checks[i].key = key}

\* C14: after any sequence of Check calls the fields carrying a message
\* are those with a failed check, each carries the message of the first
\* failed check on it (later failed checks do not replace it, passed checks
\* neither add nor remove a message), and the validator is valid iff no
\* check has failed.
C14_FirstFailureWins ==
    /\ DOMAIN errors = {checks[i].key : i \in {j \in 1..Len(checks) :
                                                 ~ checks[j].ok}}
    /\ \A key \in DOMAIN errors :
           \E i \in Failing(key) :
               /\ \A j \in Failing(key) : i <= j
               /\ errors[key] = checks[i].message
    /\ (DOMAIN errors = {}) <=> (\A i \in 1..Len(checks) : checks[i].ok)

\* Two checks on one field failed with different messages, a passed check
\* on that field among the calls; the field shows the first message.
C14_Witness ==
    \E i, j, k \in 1..Len(checks) :
        /\ i < j
        /\ ~ checks[i].ok /\ ~ checks[j].ok /\ checks[k].ok
        /\ checks[i].key = checks[j].key /\ checks[k].key = checks[i].key
        /\ checks[i].message # checks[j].message
        /\ Failing(checks[i].key) = {i, j}
        /\ errors[checks[i].key] = checks[i].message

\* The genres handed to ValidateMovie hold some tag more than once.
Repeated(genres) ==
    /\ genres # Nil
    /\ \E i, j \in 1..Len(genres) : i # j /\ genres[i] = genres[j]

\* C15 as stated: for genres with a repeated element, Unique is false and
\* ValidateMovie records the duplicate-values message under genres.
C15_DuplicateMessage ==
    \A m \in Range(input) :
        Repeated(m.genres) =>
            /\ ~ Unique(m.genres)
            /\ "genres" \in DOMAIN errors
            /\ errors["genres"] = "must not contain duplicate values"

\* C15, amended: for genres with a repeated element, Unique is false and
\* ValidateMovie records exactly one message under genres, however many
\* tags repeat: the duplicate-values message when there are at most 5
\* genres, the more-than-5 message when there are more.
C15_DuplicateOrTooMany ==
    \A m \in Range(input) :
        Repeated(m.genres) =>
            /\ ~ Unique(m.genres)
            /\ "genres" \in DOMAIN errors
            /\ errors["genres"] =
                   IF Len(m.genres) <= 5
                   THEN "must not contain duplicate values"
                   ELSE "must not contain more than 5 genres"
            /\ Cardinality({i \in 1..Len(checks) :
                                /\ checks[i].key = "genres"
                                /\ ~ checks[i].ok
                                /\ checks[i].message = errors["genres"]})
                   = 1

\* Five genres, all the same tag, were validated: one message, the
\* duplicate-values one.
C15_Witness ==
    \E m \in Range(input) :
        /\ Len(m.genres) = 5
        /\ Cardinality(Range(m.genres)) = 1
        /\ errors["genres"] = "must not contain duplicate values"

\* The constraints of the data model on a movie.
WellFormed(m) ==
    /\ m.title # <<>> /\ TitleLen(m.title) <= 500
    /\ m.year >= 1888 /\ m.year <= CurrentYear
    /\ m.runtime > 0
    /\ m.genres # Nil
    /\ Len(m.genres) >= 1 /\ Len(m.genres) <= 5
    /\ ~ Repeated(m.genres)

\* C16: ValidateMovie leaves a new validator without any message iff the
\* movie has a non-empty title of at most 500 bytes, a year from 1888 to
\* the current year, a positive runtime and 1 to 5 genres none of which
\* repeats; every message it records is under title, year, runtime or
\* genres.
C16_ValidIffWellFormed ==
    \A m \in Range(input) :
        /\ (DOMAIN errors = {}) <=> WellFormed(m)
        /\ DOMAIN errors \subseteq {"title", "year", "runtime", "genres"}

\* A movie at the edge of every constraint passed: 500 bytes of title, the
\* year 1888, five distinct genres.
C16_Witness ==
    \E m \in Range(input) :
        /\ TitleLen(m.title) = 500
        /\ m.year = 1888
        /\ Len(m.genres) = 5
        /\ DOMAIN errors = {}

\* The step in which worker c's Insert, Update or Delete returns an error.
\* The call's one statement runs in this step or not at all, so whatever the
\* call does to the table it does here.
WriteFailed(c) ==
    /\ pc[c] = "exec" /\ pc'[c] = "done"
    /\ op[c].name \in {"Insert", "Update", "Delete"}
    /\ res'[c].err # NoError

\* The table shows the one statement of worker c's call applied in full: a
\* complete row added under a new id, or the row of the call's id rewritten
\* with all four fields and the next version, or that row removed.
AppliedInFull(c) ==
    CASE op[c].name = "Insert" ->
             \E r \in movies' :
                 /\ movies' = movies \cup {r}
                 /\ \A o \in movies : o.id # r.id
                 /\ r.title = op[c].movie.title
                 /\ r.year = op[c].movie.year
                 /\ r.runtime = op[c].movie.runtime
                 /\ r.genres = op[c].movie.genres
                 /\ r.version = 1
      [] op[c].name = "Update" ->
             \E o \in movies :
                 /\ o.id = op[c].movie.id
                 /\ o.version = op[c].movie.version
                 /\ movies' = (movies \ {o}) \cup
                        {[o EXCEPT !.title = op[c].movie.title,
                                   !.year = op[c].movie.year,
                                   !.runtime = op[c].movie.runtime,
                                   !.genres = op[c].movie.genres,
                                   !.version = o.version + 1]}
      [] op[c].name = "Delete" ->
             movies' = {r \in movies : r.id # op[c].id}

\* C11 as stated: whenever Insert, Update or Delete returns an error, of
\* whatever kind, the stored records are as they were before the call.
C11_ErrorLeavesTable ==
    [][\A c \in Clients : WriteFailed(c) => movies' = movies]_vars

\* C11, amended: when Insert, Update or Delete returns ErrRecordNotFound or
\* ErrEditConflict the stored records are as they were before the call;
\* when it returns any other error, the deadline's included, they are
\* either as they were or show the call's one statement applied in full,
\* never a part of it.
C11_NoPartialMutation ==
    [][\A c \in Clients :
          WriteFailed(c) =>
              /\ res'[c].err \in {ErrRecordNotFound, ErrEditConflict} =>
                     movies' = movies
              /\ movies' = movies \/ AppliedInFull(c)]_vars

\* One worker's Update ended on the deadline with its statement applied,
\* the other's, carrying the version it replaced, was turned down.
C11_Witness ==
    \E c, d \in Clients :
        /\ Returned(c, "Update") /\ res[c].err = DeadlineExceeded
        /\ StoredVersion(movies, op[c].movie.id) = op[c].movie.version + 1
        /\ Returned(d, "Update") /\ res[d].err = ErrEditConflict
        /\ op[d].movie.id = op[c].movie.id

\* The step in which a call of worker c ends on the deadline.
Expired(c) ==
    pc[c] = "exec" /\ pc'[c] = "done" /\ stmts'[c] = stmts[c] + 1

\* C12: with a database that never answers, every Insert, Get, GetAll,
\* Update and Delete that has sent its statement returns, and what it
\* returns is the deadline's error: not nil, not ErrRecordNotFound, not
\* ErrEditConflict.
C12_DeadlineEndsEveryCall ==
    /\ \A c \in Clients : (pc[c] = "exec") ~> (pc[c] = "done")
    /\ [][\A c \in Clients :
             Expired(c) =>
                 /\ op[c].name \in
                        {"Insert", "Get", "GetAll", "Update", "Delete"}
                 /\ res'[c].err = DeadlineExceeded
                 /\ res'[c].err \notin
                        {NoError, ErrRecordNotFound, ErrEditConflict}
                 /\ movies' = movies]_pc

\* A Get and a GetAll both ended on the deadline.
C12_Witness ==
    \E c, d \in Clients :
        /\ Returned(c, "Get") /\ res[c].err = DeadlineExceeded
        /\ Returned(d, "GetAll") /\ res[d].err = DeadlineExceeded
        /\ res[d].movies = Nil

====
